---- MODULE Spec2Model ----
(***************************************************************************)
(* ComStockProcessor (comstock_processor.py): a processor object holding   *)
(* the query parameters, a cached metadata fetch-and-filter               *)
(* (process_metadata) and a thread-pool fan-out of per-building downloads  *)
(* (process_building_time_series), both caching on the local filesystem.   *)
(*                                                                         *)
(* The filesystem is a function from path to file; a file records its data *)
(* and the number of times the program has written it (its modification    *)
(* stamp).  HTTP GETs answer with a status chosen by the environment.      *)
(* Only status answers are modelled: a GET that raises (timeout, refused   *)
(* connection) is outside this model, and save_dir is an existing          *)
(* directory, as the driver and the tests arrange.                         *)
(***************************************************************************)
EXTENDS Integers, Sequences, FiniteSets, TLC

(***************************************************************************)
(* Bounds of the model.                                                    *)
(***************************************************************************)
MaxCalls == 2      \* process_* calls made in one behaviour
MaxRows == 2       \* rows of the frame handed to process_building_time_series
MaxBldgId == 3     \* integers a CSV field is parsed back to: 0..MaxBldgId

(***************************************************************************)
(* Values the callers draw from.                                           *)
(***************************************************************************)
\* The query parameters the callers construct processors with:
\* <<state, county_name, building_type, upgrade>>.
Queries ==
    { <<"FL", "All", "Office", "0">>,
      <<"FL", "Miami-Dade", "All", "0">>,
      <<"FL-Miami", "Dade", "All", "0">>,
      <<"All", "Miami-Dade", "All", "1">>,
      <<"All", "All", "All", "1">> }
BaseDir == "comstock"
MetadataDirs == {"comstock", "comstock/timeseries"}
TimeSeriesDirs == {"comstock/timeseries"}

HTTP_OK == 200
HTTP_NOT_FOUND == 404
Statuses == {HTTP_OK, HTTP_NOT_FOUND}

(***************************************************************************)
(* Cells of a table.  A cell is an integer, a string, a float or a missing *)
(* value (NaN); one record shape serves all four.                          *)
(***************************************************************************)
IntCell(n) == [kind |-> "int", text |-> "", num |-> n]
StrCell(s) == [kind |-> "str", text |-> s, num |-> 0]
FloatCell(n) == [kind |-> "float", text |-> "", num |-> n]
NaN == [kind |-> "nan", text |-> "", num |-> 0]

Columns == {"in_state", "in_county_name", "in_comstock_building_type", "attr"}

\* The remote metadata object {base}/metadata/baseline.parquet: a table
\* indexed by the building id; attr stands for the remaining columns of the
\* remote table, which the program carries along untouched.
RemoteMetadata ==
    << [index |-> IntCell(1), in_state |-> StrCell("FL"),
        in_county_name |-> StrCell("FL, Miami-Dade"),
        in_comstock_building_type |-> StrCell("Office"), attr |-> StrCell("a")],
       [index |-> IntCell(2), in_state |-> StrCell("FL"),
        in_county_name |-> StrCell("FL, Duval"),
        in_comstock_building_type |-> StrCell("Warehouse"), attr |-> StrCell("NA")],
       [index |-> IntCell(3), in_state |-> StrCell("GA"),
        in_county_name |-> StrCell("GA, Fulton"),
        in_comstock_building_type |-> StrCell("Office"), attr |-> StrCell("b")] >>

(***************************************************************************)
(* The filesystem.                                                         *)
(***************************************************************************)
EmptyFs == [p \in {} |-> [data |-> <<>>, writes |-> 0]]

Exists(f, path) == path \in DOMAIN f

Join(dir, name) == dir \o "/" \o name

\* open(path, "wb"): creates the file, or truncates it, and stamps it.
OpenForWrite(f, path) ==
    [q \in DOMAIN f \cup {path} |->
        IF q = path
        THEN [data |-> <<>>, writes |-> (IF path \in DOMAIN f THEN f[path].writes ELSE 0) + 1]
        ELSE f[q]]

\* file.write(content) on the open file, then close.
WriteContent(f, path, content) ==
    [f EXCEPT ![path] = [data |-> content, writes |-> f[path].writes]]

(***************************************************************************)
(* The Remote Source Locator: URLs are string compositions.                *)
(***************************************************************************)
BaseUrl ==
    "https://oedi-data-lake.s3.amazonaws.com/nrel-pds-building-stock/end-use-load-profiles-for-us-building-stock/2024/comstock_amy2018_release_1/"

\* ComStockProcessor.__init__: the object's fields.
NewProcessor(state, county_name, building_type, upgrade, base_dir) ==
    [state |-> state, county_name |-> county_name, building_type |-> building_type,
     upgrade |-> upgrade, base_dir |-> base_dir, base_url |-> BaseUrl,
     metadata_url |-> BaseUrl \o "metadata",
     time_series_url |-> BaseUrl \o "timeseries_individual_buildings"]

Processors == {NewProcessor(q[1], q[2], q[3], q[4], BaseDir) : q \in Queries}

\* The body a GET of url answers with on status 200: the metadata table for
\* the metadata object, and for any other object bytes that the url identifies.
ResponseContent(url) ==
    IF url = BaseUrl \o "metadata" \o "/baseline.parquet" THEN RemoteMetadata ELSE <<url>>

\* A download that opens its target before it looks at the status.
DownloadFileOpenFirst(f, url, save_path, status) ==
    IF status = HTTP_OK
    THEN WriteContent(OpenForWrite(f, save_path), save_path, ResponseContent(url))
    ELSE OpenForWrite(f, save_path)

\* download_file once requests.get has answered with status.
DownloadFile(f, url, save_path, status) ==
    IF status = HTTP_OK
    THEN WriteContent(OpenForWrite(f, save_path), save_path, ResponseContent(url))
    ELSE f

(***************************************************************************)
(* Frames, parquet filters and the CSV projection.                         *)
(***************************************************************************)
\* A filter list that keeps the county predicate when the state is "All".
FiltersCountyAlways(self) ==
    (IF self.state # "All" THEN << <<"in_state", "==", self.state>> >> ELSE <<>>)
    \o (IF self.county_name # "All"
        THEN << <<"in_county_name", "==", self.state \o ", " \o self.county_name>> >>
        ELSE <<>>)
    \o (IF self.building_type # "All"
        THEN << <<"in_comstock_building_type", "==", self.building_type>> >>
        ELSE <<>>)

\* The filter list process_metadata builds from the non-"All" fields.
Filters(self) ==
    (IF self.state # "All" THEN << <<"in_state", "==", self.state>> >> ELSE <<>>)
    \o (IF self.county_name # "All" /\ self.state # "All"
        THEN << <<"in_county_name", "==", self.state \o ", " \o self.county_name>> >>
        ELSE <<>>)
    \o (IF self.building_type # "All"
        THEN << <<"in_comstock_building_type", "==", self.building_type>> >>
        ELSE <<>>)

\* A reader that keeps a row when any one predicate holds.
SatisfiesAny(row, filters) ==
    \E i \in 1..Len(filters) : row[filters[i][1]] = StrCell(filters[i][3])

Satisfies(row, filters) ==
    \A i \in 1..Len(filters) : row[filters[i][1]] = StrCell(filters[i][3])

\* A reader that hands back the whole table whatever the filters are.
ReadParquetUnfiltered(table, filters) == table

\* pd.read_parquet(path, filters=None if len(filters) == 0 else filters)
ReadParquet(table, filters) ==
    IF Len(filters) = 0 THEN table
    ELSE SelectSeq(table, LAMBDA row : Satisfies(row, filters))

\* meta_df.reset_index(drop=False): the index becomes the column bldg_id.
ResetIndex(table) ==
    [i \in 1..Len(table) |->
        [c \in Columns \cup {"bldg_id"} |->
            IF c = "bldg_id" THEN table[i].index ELSE table[i][c]]]

\* The text to_csv writes for one cell.
CsvField(cell) ==
    CASE cell.kind = "int" -> ToString(cell.num)
      [] cell.kind = "float" -> ToString(cell.num) \o ".0"
      [] cell.kind = "str" -> cell.text
      [] OTHER -> ""

\* meta_df.to_csv(path, index=False): one record of text fields per row
\* (quoting of fields that hold a comma is undone by the reader).
ToCsv(frame) ==
    [i \in 1..Len(frame) |-> [c \in DOMAIN frame[i] |-> CsvField(frame[i][c])]]

\* The default na_values of pd.read_csv that matter here.
NaTokens == {"", "NA", "NaN", "None", "nan", "null"}

IsIntText(t) == \E n \in 0..MaxBldgId : ToString(n) = t

IntOfText(t) == CHOOSE n \in 0..MaxBldgId : ToString(n) = t

\* pd.read_csv infers each column's type from all of its fields: integers
\* when every field is one, floats when the others are missing values,
\* strings otherwise, and a missing-value token reads as NaN.
ReadCsvCell(lines, c, t) ==
    IF \A i \in 1..Len(lines) : IsIntText(lines[i][c]) THEN IntCell(IntOfText(t))
    ELSE IF t \in NaTokens THEN NaN
    ELSE IF \A i \in 1..Len(lines) : IsIntText(lines[i][c]) \/ lines[i][c] \in NaTokens
         THEN FloatCell(IntOfText(t))
    ELSE StrCell(t)

ReadCsv(lines) ==
    [i \in 1..Len(lines) |-> [c \in DOMAIN lines[i] |-> ReadCsvCell(lines, c, lines[i][c])]]

(***************************************************************************)
(* State.                                                                  *)
(***************************************************************************)
VARIABLES
    proc,         \* the ComStockProcessor object the driver holds
    fs,           \* the local filesystem: path -> [data, writes]
    hist,         \* the calls completed so far, oldest first
    pc,           \* "idle", or "pool" while process_building_time_series runs
    data_rows,    \* rows of the running time-series call, in input order
    ts_dir,       \* save_dir of the running time-series call
    num_workers,  \* max_workers of its ThreadPoolExecutor
    tasks,        \* one record per submitted download_task
    pre_fs        \* the filesystem when the running call started

vars == <<proc, fs, hist, pc, data_rows, ts_dir, num_workers, tasks, pre_fs>>

pool_vars == <<data_rows, ts_dir, num_workers, tasks, pre_fs>>

(***************************************************************************)
(* process_metadata.                                                       *)
(***************************************************************************)
RawPath(save_dir) == Join(save_dir, "comstock_metadata.parquet")

OutputCsv(self, save_dir) ==
    Join(save_dir,
         self.state \o "-" \o self.county_name \o "-" \o self.building_type \o "-"
            \o self.upgrade \o "-selected_metadata.csv")

\* A download step that does not look for the raw file first.
MetadataDownloadAlways(self, f, save_dir, status) ==
    DownloadFile(f, self.metadata_url \o "/baseline.parquet", RawPath(save_dir), status)

\* The download step: no request when the raw file exists, else one GET that
\* answers with status.
MetadataDownload(self, f, save_dir, status) ==
    IF Exists(f, RawPath(save_dir)) THEN f
    ELSE DownloadFile(f, self.metadata_url \o "/baseline.parquet", RawPath(save_dir), status)

\* The frame of the filter path: read with the filters, lift the index.
FilteredFrame(self, f, save_dir) ==
    ResetIndex(ReadParquet(f[RawPath(save_dir)].data, Filters(self)))

\* A call without the projection check: it always reads and filters the raw
\* metadata and writes the projection file.
MetadataCallNoProjectionCache(self, f, save_dir, status) ==
    LET f1 == MetadataDownload(self, f, save_dir, status)
        gets == IF Exists(f, RawPath(save_dir)) THEN 0 ELSE 1
        csv == OutputCsv(self, save_dir)
    IN  IF ~Exists(f1, RawPath(save_dir))
        THEN [fs |-> f1, outcome |-> "FileNotFoundError", meta_df |-> <<>>,
              gets |-> gets, path |-> "filter"]
        ELSE [fs |-> WriteContent(OpenForWrite(f1, csv), csv,
                                  ToCsv(FilteredFrame(self, f1, save_dir))),
              outcome |-> "returned", meta_df |-> FilteredFrame(self, f1, save_dir),
              gets |-> gets, path |-> "filter"]

\* One whole call of process_metadata on filesystem f: the filesystem it
\* leaves, how it ends, the frame it returns and what it did on the way.
MetadataCall(self, f, save_dir, status) ==
    LET f1 == MetadataDownload(self, f, save_dir, status)
        gets == IF Exists(f, RawPath(save_dir)) THEN 0 ELSE 1
        csv == OutputCsv(self, save_dir)
    IN  IF Exists(f1, csv)
        THEN [fs |-> f1, outcome |-> "returned", meta_df |-> ReadCsv(f1[csv].data),
              gets |-> gets, path |-> "cached"]
        ELSE IF ~Exists(f1, RawPath(save_dir))
        THEN [fs |-> f1, outcome |-> "FileNotFoundError", meta_df |-> <<>>,
              gets |-> gets, path |-> "filter"]
        ELSE [fs |-> WriteContent(OpenForWrite(f1, csv), csv,
                                  ToCsv(FilteredFrame(self, f1, save_dir))),
              outcome |-> "returned", meta_df |-> FilteredFrame(self, f1, save_dir),
              gets |-> gets, path |-> "filter"]

\* What is kept of a completed call: the receiver and the arguments, how it
\* ended and what it returned, the GETs it issued (per task for the pool)
\* with their statuses, and the filesystem before and after.
CallRecord(op, self, save_dir, rows, outcome, meta_df, paths, ids, gets, statuses, path, pre, post) ==
    [op |-> op, self |-> self, save_dir |-> save_dir, rows |-> rows, outcome |-> outcome,
     meta_df |-> meta_df, paths |-> paths, ids |-> ids, gets |-> gets,
     statuses |-> statuses, path |-> path, pre |-> pre, post |-> post]

ProcessMetadata(save_dir, status) ==
    /\ pc = "idle"
    /\ Len(hist) < MaxCalls
    /\ LET r == MetadataCall(proc, fs, save_dir, status)
       IN  /\ fs' = r.fs
           /\ hist' = Append(hist,
                  CallRecord("process_metadata", proc, save_dir, <<>>, r.outcome, r.meta_df,
                             <<>>, <<>>, <<r.gets>>,
                             <<IF r.gets = 0 THEN 0 ELSE status>>, r.path, fs, r.fs))
    /\ UNCHANGED <<proc, pc, pool_vars>>

(***************************************************************************)
(* The driver constructs a processor.                                      *)
(***************************************************************************)
Construct(q) ==
    /\ pc = "idle"
    /\ Len(hist) < MaxCalls
    /\ proc' = NewProcessor(q[1], q[2], q[3], q[4], BaseDir)
    /\ UNCHANGED <<fs, hist, pc, pool_vars>>

(***************************************************************************)
(* process_building_time_series.                                           *)
(***************************************************************************)
\* Python's str() of a cell.
PyStr(cell) ==
    CASE cell.kind = "int" -> ToString(cell.num)
      [] cell.kind = "float" -> ToString(cell.num) \o ".0"
      [] cell.kind = "str" -> cell.text
      [] OTHER -> "nan"

BuildingId(row) == PyStr(row["bldg_id"])

\* A file name that leaves the building id out.
SavePathNoId(self, save_dir, building_id) ==
    Join(save_dir, "bldg_id-upgrade-" \o self.upgrade \o ".parquet")

SavePath(self, save_dir, building_id) ==
    Join(save_dir, "bldg_id-" \o building_id \o "-upgrade-" \o self.upgrade \o ".parquet")

BuildingTimeSeriesFile(self, row) ==
    self.time_series_url \o "/by_state/upgrade=" \o self.upgrade \o "/state="
        \o PyStr(row["in_state"]) \o "/" \o BuildingId(row) \o "-" \o self.upgrade
        \o ".parquet"

\* multiprocessing.cpu_count() ranges over 1..MaxCpu: one more worker than
\* the frame has rows runs the tasks no differently, so MaxRows + 1 covers
\* every pool a frame of MaxRows rows can meet.
MaxCpu == MaxRows + 1

\* num_workers = max(1, multiprocessing.cpu_count() - 1)
NumWorkers(cpu_count) == IF cpu_count - 1 > 1 THEN cpu_count - 1 ELSE 1

\* The frames a caller hands in: up to MaxRows rows of the metadata frame,
\* in any order, a row possibly more than once.
FrameRows == {ResetIndex(RemoteMetadata)[i] : i \in 1..Len(RemoteMetadata)}

Frames == UNION {[1..n -> FrameRows] : n \in 0..MaxRows}

NewTask == [pc |-> "queued", status |-> 0, gets |-> 0, writes |-> 0, path |-> "", id |-> ""]

Running(ts) == {i \in 1..Len(ts) : ts[i].pc \in {"check", "get", "open", "write"}}

\* The call builds data_rows, creates the executor and submits one
\* download_task per row, in input order.
StartTimeSeries(data_frame, save_dir, cpu_count) ==
    /\ pc = "idle"
    /\ Len(hist) < MaxCalls
    /\ pc' = "pool"
    /\ data_rows' = data_frame
    /\ ts_dir' = save_dir
    /\ num_workers' = NumWorkers(cpu_count)
    /\ tasks' = [i \in 1..Len(data_frame) |-> NewTask]
    /\ pre_fs' = fs
    /\ UNCHANGED <<proc, fs, hist>>

\* A pool that starts a thread for every queued task.
TaskStartUnbounded(i) ==
    /\ pc = "pool"
    /\ i \in 1..Len(tasks)
    /\ tasks[i].pc = "queued"
    /\ \A j \in 1..(i - 1) : tasks[j].pc # "queued"
    /\ tasks' = [tasks EXCEPT ![i].pc = "check"]
    /\ UNCHANGED <<proc, fs, hist, pc, data_rows, ts_dir, num_workers, pre_fs>>

\* A worker thread takes the oldest queued task off the work queue; the pool
\* holds at most num_workers threads.
TaskStart(i) ==
    /\ pc = "pool"
    /\ i \in 1..Len(tasks)
    /\ tasks[i].pc = "queued"
    /\ \A j \in 1..(i - 1) : tasks[j].pc # "queued"
    /\ Cardinality(Running(tasks)) < num_workers
    /\ tasks' = [tasks EXCEPT ![i].pc = "check"]
    /\ UNCHANGED <<proc, fs, hist, pc, data_rows, ts_dir, num_workers, pre_fs>>

\* A download_task without the existence check.
TaskCheckAlwaysMiss(i) ==
    /\ pc = "pool"
    /\ i \in 1..Len(tasks)
    /\ tasks[i].pc = "check"
    /\ tasks' = [tasks EXCEPT ![i].pc = "get"]
    /\ UNCHANGED <<proc, fs, hist, pc, data_rows, ts_dir, num_workers, pre_fs>>

\* download_task up to its existence check: a hit returns at once.
TaskCheck(i) ==
    /\ pc = "pool"
    /\ i \in 1..Len(tasks)
    /\ tasks[i].pc = "check"
    /\ LET id == BuildingId(data_rows[i])
           save_path == SavePath(proc, ts_dir, id)
       IN  tasks' = [tasks EXCEPT ![i] =
                IF Exists(fs, save_path)
                THEN [@ EXCEPT !.pc = "done", !.path = save_path, !.id = id]
                ELSE [@ EXCEPT !.pc = "get"]]
    /\ UNCHANGED <<proc, fs, hist, pc, data_rows, ts_dir, num_workers, pre_fs>>

\* A failure that takes the queued tasks down with it: they finish without
\* running.
TaskGetCancelling(i, status) ==
    /\ pc = "pool"
    /\ i \in 1..Len(tasks)
    /\ tasks[i].pc = "get"
    /\ LET id == BuildingId(data_rows[i])
           save_path == SavePath(proc, ts_dir, id)
       IN  tasks' = [j \in 1..Len(tasks) |->
                IF j = i
                THEN IF status = HTTP_OK
                     THEN [tasks[j] EXCEPT !.pc = "open", !.status = status, !.gets = @ + 1]
                     ELSE [tasks[j] EXCEPT !.pc = "done", !.status = status, !.gets = @ + 1,
                                           !.path = save_path, !.id = id]
                ELSE IF status # HTTP_OK /\ tasks[j].pc = "queued"
                     THEN [tasks[j] EXCEPT !.pc = "done"]
                     ELSE tasks[j]]
    /\ UNCHANGED <<proc, fs, hist, pc, data_rows, ts_dir, num_workers, pre_fs>>

\* A download that creates its target before it looks at the status.
TaskGetTouching(i, status) ==
    /\ pc = "pool"
    /\ i \in 1..Len(tasks)
    /\ tasks[i].pc = "get"
    /\ LET id == BuildingId(data_rows[i])
           save_path == SavePath(proc, ts_dir, id)
       IN  /\ tasks' = [tasks EXCEPT ![i] =
                    IF status = HTTP_OK
                    THEN [@ EXCEPT !.pc = "open", !.status = status, !.gets = @ + 1]
                    ELSE [@ EXCEPT !.pc = "done", !.status = status, !.gets = @ + 1,
                                   !.path = save_path, !.id = id]]
           /\ fs' = IF status = HTTP_OK THEN fs ELSE OpenForWrite(fs, save_path)
    /\ UNCHANGED <<proc, hist, pc, data_rows, ts_dir, num_workers, pre_fs>>

\* A download that asks once more after a first failure.
TaskGetRetrying(i, status) ==
    /\ pc = "pool"
    /\ i \in 1..Len(tasks)
    /\ tasks[i].pc = "get"
    /\ LET id == BuildingId(data_rows[i])
           save_path == SavePath(proc, ts_dir, id)
       IN  tasks' = [tasks EXCEPT ![i] =
                IF status = HTTP_OK
                THEN [@ EXCEPT !.pc = "open", !.status = status, !.gets = @ + 1]
                ELSE IF @.gets = 0
                THEN [@ EXCEPT !.status = status, !.gets = @ + 1]
                ELSE [@ EXCEPT !.pc = "done", !.status = status, !.gets = @ + 1,
                               !.path = save_path, !.id = id]]
    /\ UNCHANGED <<proc, fs, hist, pc, data_rows, ts_dir, num_workers, pre_fs>>

\* download_file: requests.get answers with status; on a failure the task
\* prints the notice and returns the path and the id all the same.
TaskGet(i, status) ==
    /\ pc = "pool"
    /\ i \in 1..Len(tasks)
    /\ tasks[i].pc = "get"
    /\ LET id == BuildingId(data_rows[i])
           save_path == SavePath(proc, ts_dir, id)
       IN  tasks' = [tasks EXCEPT ![i] =
                IF status = HTTP_OK
                THEN [@ EXCEPT !.pc = "open", !.status = status, !.gets = @ + 1]
                ELSE [@ EXCEPT !.pc = "done", !.status = status, !.gets = @ + 1,
                               !.path = save_path, !.id = id]]
    /\ UNCHANGED <<proc, fs, hist, pc, data_rows, ts_dir, num_workers, pre_fs>>

\* download_file: open(save_path, "wb").
TaskOpen(i) ==
    /\ pc = "pool"
    /\ i \in 1..Len(tasks)
    /\ tasks[i].pc = "open"
    /\ fs' = OpenForWrite(fs, SavePath(proc, ts_dir, BuildingId(data_rows[i])))
    /\ tasks' = [tasks EXCEPT ![i].pc = "write", ![i].writes = @ + 1]
    /\ UNCHANGED <<proc, hist, pc, data_rows, ts_dir, num_workers, pre_fs>>

\* A download that drops the file it has opened instead of filling it.
TaskWriteDiscarding(i) ==
    /\ pc = "pool"
    /\ i \in 1..Len(tasks)
    /\ tasks[i].pc = "write"
    /\ LET id == BuildingId(data_rows[i])
           save_path == SavePath(proc, ts_dir, id)
       IN  /\ fs' = [q \in DOMAIN fs \ {save_path} |-> fs[q]]
           /\ tasks' = [tasks EXCEPT ![i] =
                    [@ EXCEPT !.pc = "done", !.path = save_path, !.id = id]]
    /\ UNCHANGED <<proc, hist, pc, data_rows, ts_dir, num_workers, pre_fs>>

\* download_file: file.write(response.content), close, and the task returns.
TaskWrite(i) ==
    /\ pc = "pool"
    /\ i \in 1..Len(tasks)
    /\ tasks[i].pc = "write"
    /\ LET id == BuildingId(data_rows[i])
           save_path == SavePath(proc, ts_dir, id)
       IN  /\ fs' = WriteContent(fs, save_path,
                        ResponseContent(BuildingTimeSeriesFile(proc, data_rows[i])))
           /\ tasks' = [tasks EXCEPT ![i] =
                    [@ EXCEPT !.pc = "done", !.path = save_path, !.id = id]]
    /\ UNCHANGED <<proc, hist, pc, data_rows, ts_dir, num_workers, pre_fs>>

\* Results gathered last task first.
ResultsReversed(ts) ==
    [i \in 1..Len(ts) |-> <<ts[Len(ts) + 1 - i].path, ts[Len(ts) + 1 - i].id>>]

\* list(executor.map(...)): the results in submission order, then the split
\* into paths and building ids.
Results(ts) == [i \in 1..Len(ts) |-> <<ts[i].path, ts[i].id>>]

Paths(results) == [i \in 1..Len(results) |-> results[i][1]]

BuildingIds(results) == [i \in 1..Len(results) |-> results[i][2]]

Gets(ts) == [i \in 1..Len(ts) |-> ts[i].gets]

TaskStatuses(ts) == [i \in 1..Len(ts) |-> ts[i].status]

\* A return that unpacks zip(*results) without the guard for no results.
ReturnTimeSeriesUnguarded ==
    /\ pc = "pool"
    /\ \A i \in 1..Len(tasks) : tasks[i].pc = "done"
    /\ hist' = Append(hist,
           CallRecord("process_building_time_series", proc, ts_dir, data_rows,
                      IF tasks = <<>> THEN "ValueError" ELSE "returned",
                      <<>>, Paths(Results(tasks)), BuildingIds(Results(tasks)),
                      Gets(tasks), TaskStatuses(tasks), "pool", pre_fs, fs))
    /\ pc' = "idle"
    /\ data_rows' = <<>>
    /\ ts_dir' = ""
    /\ num_workers' = 0
    /\ tasks' = <<>>
    /\ pre_fs' = EmptyFs
    /\ UNCHANGED <<proc, fs>>

\* A return that waits for the running tasks only, not for the queued ones.
ReturnTimeSeriesEarly ==
    /\ pc = "pool"
    /\ Running(tasks) = {}
    /\ hist' = Append(hist,
           CallRecord("process_building_time_series", proc, ts_dir, data_rows, "returned",
                      <<>>, Paths(Results(tasks)), BuildingIds(Results(tasks)),
                      Gets(tasks), TaskStatuses(tasks), "pool", pre_fs, fs))
    /\ pc' = "idle"
    /\ data_rows' = <<>>
    /\ ts_dir' = ""
    /\ num_workers' = 0
    /\ tasks' = <<>>
    /\ pre_fs' = EmptyFs
    /\ UNCHANGED <<proc, fs>>

\* The with-block ends when every task has finished; the call returns.
ReturnTimeSeries ==
    /\ pc = "pool"
    /\ \A i \in 1..Len(tasks) : tasks[i].pc = "done"
    /\ hist' = Append(hist,
           CallRecord("process_building_time_series", proc, ts_dir, data_rows, "returned",
                      <<>>, Paths(Results(tasks)), BuildingIds(Results(tasks)),
                      Gets(tasks), TaskStatuses(tasks), "pool", pre_fs, fs))
    /\ pc' = "idle"
    /\ data_rows' = <<>>
    /\ ts_dir' = ""
    /\ num_workers' = 0
    /\ tasks' = <<>>
    /\ pre_fs' = EmptyFs
    /\ UNCHANGED <<proc, fs>>

(***************************************************************************)
(* The specification.                                                      *)
(***************************************************************************)
Init ==
    /\ proc \in Processors
    /\ fs = EmptyFs
    /\ hist = <<>>
    /\ pc = "idle"
    /\ data_rows = <<>>
    /\ ts_dir = ""
    /\ num_workers = 0
    /\ tasks = <<>>
    /\ pre_fs = EmptyFs

\* The files earlier runs of self may have left behind, the directories
\* being kept from run to run: in the base directory nothing, the raw
\* metadata alone or the raw metadata with self's projection; in the
\* time-series directory the files of the first n buildings.
RECURSIVE DownloadAll(_, _, _, _)
DownloadAll(f, self, save_dir, rows) ==
    IF rows = <<>> THEN f
    ELSE DownloadAll(DownloadFile(f, BuildingTimeSeriesFile(self, Head(rows)),
                                  SavePath(self, save_dir, BuildingId(Head(rows))), HTTP_OK),
                     self, save_dir, Tail(rows))

MetadataLeft(self) ==
    { EmptyFs,
      MetadataDownload(self, EmptyFs, BaseDir, HTTP_OK),
      MetadataCall(self, EmptyFs, BaseDir, HTTP_OK).fs }

LeftByEarlierRuns(self) ==
    { DownloadAll(f, self, d, SubSeq(ResetIndex(RemoteMetadata), 1, n)) :
        f \in MetadataLeft(self), d \in TimeSeriesDirs, n \in 0..Len(RemoteMetadata) }

InitCached ==
    /\ proc \in Processors
    /\ fs \in LeftByEarlierRuns(proc)
    /\ hist = <<>>
    /\ pc = "idle"
    /\ data_rows = <<>>
    /\ ts_dir = ""
    /\ num_workers = 0
    /\ tasks = <<>>
    /\ pre_fs = EmptyFs

\* The metadata operations: processors are constructed and process_metadata
\* is called.
NextMetadata ==
    \/ \E q \in Queries : Construct(q)
    \/ \E d \in MetadataDirs, status \in Statuses : ProcessMetadata(d, status)

\* The steps of process_building_time_series and of the tasks of its pool.
NextTimeSeries ==
    \/ \E df \in Frames, d \in TimeSeriesDirs, n \in 1..MaxCpu : StartTimeSeries(df, d, n)
    \/ \E i \in 1..MaxRows : TaskStart(i)
    \/ \E i \in 1..MaxRows : TaskCheck(i)
    \/ \E i \in 1..MaxRows, status \in Statuses : TaskGet(i, status)
    \/ \E i \in 1..MaxRows : TaskOpen(i)
    \/ \E i \in 1..MaxRows : TaskWrite(i)
    \/ ReturnTimeSeries

\* The calls the processor at hand takes.
NextCall ==
    \/ \E d \in MetadataDirs, status \in Statuses : ProcessMetadata(d, status)
    \/ NextTimeSeries

Next ==
    \/ \E q \in Queries : Construct(q)
    \/ NextCall

\* The first call of a run, of either kind.
NextOneCall ==
    \/ hist = <<>> /\ \E d \in MetadataDirs, status \in Statuses : ProcessMetadata(d, status)
    \/ hist = <<>> /\ \E df \in Frames, d \in TimeSeriesDirs, n \in 1..MaxCpu :
                        StartTimeSeries(df, d, n)
    \/ hist = <<>> /\ \E i \in 1..MaxRows : TaskStart(i)
    \/ hist = <<>> /\ \E i \in 1..MaxRows : TaskCheck(i)
    \/ hist = <<>> /\ \E i \in 1..MaxRows, status \in Statuses : TaskGet(i, status)
    \/ hist = <<>> /\ \E i \in 1..MaxRows : TaskOpen(i)
    \/ hist = <<>> /\ \E i \in 1..MaxRows : TaskWrite(i)
    \/ hist = <<>> /\ ReturnTimeSeries

\* A driver that calls process_building_time_series and then calls it again
\* with the frame of its last call.
NextRerun ==
    \/ \E df \in Frames, d \in TimeSeriesDirs, n \in 1..MaxCpu :
          /\ hist # <<>> => df = hist[Len(hist)].rows
          /\ StartTimeSeries(df, d, n)
    \/ \E i \in 1..MaxRows : TaskStart(i)
    \/ \E i \in 1..MaxRows : TaskCheck(i)
    \/ \E i \in 1..MaxRows, status \in Statuses : TaskGet(i, status)
    \/ \E i \in 1..MaxRows : TaskOpen(i)
    \/ \E i \in 1..MaxRows : TaskWrite(i)
    \/ ReturnTimeSeries

\* Any calls, up to MaxCalls of them, starting in fresh directories.
Spec == Init /\ [][Next]_vars

\* Metadata calls by any processors, starting in fresh directories.
SpecMetadata == Init /\ [][NextMetadata]_vars

\* One call of either kind in directories that earlier runs have used.
SpecOneCall == InitCached /\ [][NextOneCall]_vars

\* Repeated time-series calls over one frame, starting in fresh directories.
SpecRerun == Init /\ [][NextRerun]_vars

(***************************************************************************)
(* Properties of process_metadata.                                         *)
(***************************************************************************)
Calls == 1..Len(hist)

IsMetadata(i) == hist[i].op = "process_metadata"

IsTimeSeries(i) == hist[i].op = "process_building_time_series"

Returned(i) == hist[i].outcome = "returned"

\* The same processor parameters and the same save_dir in calls i and j.
SameCall(i, j) ==
    /\ hist[i].op = hist[j].op
    /\ hist[i].self = hist[j].self
    /\ hist[i].save_dir = hist[j].save_dir

\* C1: a second process_metadata call with the parameters and the save_dir
\* of a first one that returned issues no GET, leaves every file as it was
\* and returns a frame equal to the first call's.
C1_MetadataIdempotent ==
    \A i \in Calls : \A j \in Calls :
        (j = i + 1 /\ IsMetadata(i) /\ SameCall(i, j) /\ Returned(i))
        => /\ Returned(j)
           /\ hist[j].gets = <<0>>
           /\ hist[j].post = hist[j].pre
           /\ hist[j].meta_df = hist[i].meta_df

\* The rows of table the claim's predicate keeps, spelled out field by field.
ClaimedRows(self, table) ==
    SelectSeq(table, LAMBDA row :
        /\ (self.state # "All" => row.in_state.text = self.state)
        /\ (self.state # "All" /\ self.county_name # "All"
              => row.in_county_name.text = self.state \o ", " \o self.county_name)
        /\ (self.building_type # "All"
              => row.in_comstock_building_type.text = self.building_type))

\* C2: on the filter path the returned frame holds exactly the raw rows that
\* satisfy every active equality filter, in the raw table's order, each with
\* its index as bldg_id; with no active filter it holds the whole raw table.
C2_FilterExact ==
    \A i \in Calls :
        (IsMetadata(i) /\ Returned(i) /\ hist[i].path = "filter")
        => LET raw == hist[i].post[RawPath(hist[i].save_dir)].data
               want == ClaimedRows(hist[i].self, raw)
               got == hist[i].meta_df
           IN  /\ Len(got) = Len(want)
               /\ \A k \in 1..Len(want) :
                     /\ got[k]["bldg_id"] = want[k].index
                     /\ \A c \in Columns : got[k][c] = want[k][c]
               /\ (hist[i].self.state = "All" /\ hist[i].self.building_type = "All"
                     => Len(got) = Len(raw))

\* A filter call with two active filters that kept one row of the three.
C2_Witness ==
    \E i \in Calls :
        /\ IsMetadata(i) /\ Returned(i) /\ hist[i].path = "filter"
        /\ hist[i].self.state # "All" /\ hist[i].self.building_type # "All"
        /\ Len(hist[i].meta_df) = 1

\* C6: with the raw file absent and a non-success answer to the GET, the
\* call writes no file at all, and when it goes on to read the raw file
\* (no projection file present) it ends in the missing-file error.
C6_FailedDownload ==
    \A i \in Calls :
        (IsMetadata(i) /\ ~Exists(hist[i].pre, RawPath(hist[i].save_dir))
            /\ hist[i].statuses # <<HTTP_OK>>)
        => /\ hist[i].gets = <<1>>
           /\ hist[i].post = hist[i].pre
           /\ ~Exists(hist[i].post, RawPath(hist[i].save_dir))
           /\ (~Exists(hist[i].pre, OutputCsv(hist[i].self, hist[i].save_dir))
                 => /\ hist[i].outcome = "FileNotFoundError"
                    /\ hist[i].path = "filter"
                    /\ hist[i].meta_df = <<>>)

\* A call whose download failed and that ended in the missing-file error.
C6_Witness ==
    \E i \in Calls :
        /\ IsMetadata(i)
        /\ hist[i].statuses = <<HTTP_NOT_FOUND>>
        /\ hist[i].outcome = "FileNotFoundError"

\* The building ids of a frame, in order.
FrameIds(frame) == [k \in 1..Len(frame) |-> frame[k]["bldg_id"]]

\* C9: a call that returns the frame loaded from the projection file returns
\* the rows a fresh filter with its own parameters keeps (compared by their
\* building ids, which the CSV carries unchanged).
C9_ProjectionMatchesQuery ==
    \A i \in Calls :
        (IsMetadata(i) /\ Returned(i) /\ hist[i].path = "cached")
        => FrameIds(hist[i].meta_df)
             = FrameIds(ResetIndex(ClaimedRows(hist[i].self, RemoteMetadata)))

(***************************************************************************)
(* Properties of process_building_time_series.                             *)
(***************************************************************************)
\* The id, the local path and the remote object the claims name for a row,
\* written out as strings.
ClaimedId(row) == ToString(row["bldg_id"].num)

ClaimedPath(save_dir, upgrade, row) ==
    save_dir \o "/bldg_id-" \o ClaimedId(row) \o "-upgrade-" \o upgrade \o ".parquet"

ClaimedUrl(upgrade, row) ==
    BaseUrl \o "timeseries_individual_buildings/by_state/upgrade=" \o upgrade \o "/state="
        \o row["in_state"].text \o "/" \o ClaimedId(row) \o "-" \o upgrade \o ".parquet"

DistinctIds(rows) ==
    \A k \in 1..Len(rows) : \A l \in 1..Len(rows) :
        k # l => rows[k]["bldg_id"] # rows[l]["bldg_id"]

\* Every target file of call i exists when the call has ended.
AllTargetsExist(i) ==
    \A k \in 1..Len(hist[i].paths) : Exists(hist[i].post, hist[i].paths[k])

\* The statement of C3 for the calls i and j = i + 1.
SecondRunIsNoOp(i, j) ==
    /\ hist[j].paths = hist[i].paths
    /\ hist[j].ids = hist[i].ids
    /\ hist[j].post = hist[j].pre

TwoRuns(i, j) ==
    /\ j = i + 1
    /\ IsTimeSeries(i)
    /\ SameCall(i, j)
    /\ hist[i].rows = hist[j].rows

\* C3 as claimed: a second run over the same rows and save_dir returns the
\* same two lists and writes no file.
C3_SecondRunNoOp ==
    \A i \in Calls : \A j \in Calls : TwoRuns(i, j) => SecondRunIsNoOp(i, j)

\* C3 as amended: the two lists are the same on both runs, and when every
\* target file exists after the first run the second run issues no GET and
\* writes no file.
C3_SecondRunNoOpAfterSuccess ==
    \A i \in Calls : \A j \in Calls :
        TwoRuns(i, j)
        => /\ hist[j].paths = hist[i].paths
           /\ hist[j].ids = hist[i].ids
           /\ (AllTargetsExist(i)
                 => /\ hist[j].post = hist[j].pre
                    /\ \A k \in 1..Len(hist[j].gets) : hist[j].gets[k] = 0)

\* Two runs over two rows, the first of which downloaded both files.
C3_Witness ==
    \E i \in Calls : \E j \in Calls :
        /\ TwoRuns(i, j)
        /\ Len(hist[i].rows) = 2
        /\ hist[i].statuses = <<HTTP_OK, HTTP_OK>>
        /\ AllTargetsExist(i)

\* Position k of call record r holds row k's id and path.
Aligned(r, k) ==
    /\ r.ids[k] = ClaimedId(r.rows[k])
    /\ r.paths[k] = ClaimedPath(r.save_dir, r.self.upgrade, r.rows[k])

\* C4: the two lists have the length of the input and position i holds the
\* id and the path of input row i, whatever order the tasks ran and
\* finished in; a finished task of a running call holds its own row's pair.
C4_OrderPreserved ==
    /\ \A i \in Calls :
          IsTimeSeries(i)
          => /\ Len(hist[i].paths) = Len(hist[i].rows)
             /\ Len(hist[i].ids) = Len(hist[i].rows)
             /\ \A k \in 1..Len(hist[i].rows) : Aligned(hist[i], k)
    /\ pc = "pool"
          => \A k \in 1..Len(tasks) :
                tasks[k].pc = "done"
                => /\ tasks[k].id = ClaimedId(data_rows[k])
                   /\ tasks[k].path = ClaimedPath(ts_dir, proc.upgrade, data_rows[k])

\* A returned call over two rows with different ids, both downloaded.
C4_Witness ==
    \E i \in Calls :
        /\ IsTimeSeries(i)
        /\ Len(hist[i].rows) = 2
        /\ hist[i].rows[1]["bldg_id"] # hist[i].rows[2]["bldg_id"]
        /\ hist[i].statuses = <<HTTP_OK, HTTP_OK>>

FailedAt(r, k) == r.gets[k] = 1 /\ r.statuses[k] # HTTP_OK

\* The steps the tasks of the pool can take.
PoolStep ==
    \/ \E i \in 1..MaxRows : TaskStart(i)
    \/ \E i \in 1..MaxRows : TaskCheck(i)
    \/ \E i \in 1..MaxRows, status \in Statuses : TaskGet(i, status)
    \/ \E i \in 1..MaxRows : TaskOpen(i)
    \/ \E i \in 1..MaxRows : TaskWrite(i)

\* C5: a call in which some download failed still returns, with every row's
\* path and id at the row's position, the failed rows included; every row
\* whose own download did not fail has its file afterwards, untouched when
\* it was there before the call and else holding the row's remote object;
\* and no running call is ever left without a step to take.
C5_FailureIsolated ==
    /\ \A i \in Calls :
          (IsTimeSeries(i) /\ \E k \in 1..Len(hist[i].rows) : FailedAt(hist[i], k))
          => /\ Returned(i)
             /\ Len(hist[i].paths) = Len(hist[i].rows)
             /\ Len(hist[i].ids) = Len(hist[i].rows)
             /\ \A k \in 1..Len(hist[i].rows) :
                   /\ Aligned(hist[i], k)
                   /\ ~FailedAt(hist[i], k)
                        => LET path == ClaimedPath(hist[i].save_dir, hist[i].self.upgrade,
                                                   hist[i].rows[k])
                           IN  /\ Exists(hist[i].post, path)
                               /\ IF Exists(hist[i].pre, path)
                                  THEN hist[i].post[path] = hist[i].pre[path]
                                  ELSE hist[i].post[path].data
                                         = <<ClaimedUrl(hist[i].self.upgrade, hist[i].rows[k])>>
    /\ pc = "pool"
          => \/ \A k \in 1..Len(tasks) : tasks[k].pc = "done"
             \/ ENABLED PoolStep

\* A returned call over two different rows: one download failed, the other
\* was made and succeeded.
C5_Witness ==
    \E i \in Calls :
        /\ IsTimeSeries(i)
        /\ Len(hist[i].rows) = 2
        /\ hist[i].rows[1]["bldg_id"] # hist[i].rows[2]["bldg_id"]
        /\ hist[i].statuses = <<HTTP_NOT_FOUND, HTTP_OK>>

\* The files that were there when a call started are there, unchanged, in f.
Preserved(pre, f) == \A p \in DOMAIN pre : Exists(f, p) /\ f[p] = pre[p]

\* C7: a file that exists when a call starts is there with the same data
\* and the same modification stamp at every step of the call and when the
\* call ends, and the call issues no GET for it.
C7_CachedArtifactsUntouched ==
    /\ \A i \in Calls :
          /\ Preserved(hist[i].pre, hist[i].post)
          /\ (IsMetadata(i) /\ Exists(hist[i].pre, RawPath(hist[i].save_dir)))
                => hist[i].gets = <<0>>
          /\ IsTimeSeries(i)
                => \A k \in 1..Len(hist[i].rows) :
                      Exists(hist[i].pre,
                             ClaimedPath(hist[i].save_dir, hist[i].self.upgrade, hist[i].rows[k]))
                      => hist[i].gets[k] = 0
    /\ pc = "pool" => Preserved(pre_fs, fs)

\* A time-series call that found a target file in place, made after a call
\* that left files behind.
C7_Witness ==
    \E i \in Calls :
        /\ IsTimeSeries(i)
        /\ \E k \in 1..Len(hist[i].rows) :
              Exists(hist[i].pre,
                     ClaimedPath(hist[i].save_dir, hist[i].self.upgrade, hist[i].rows[k]))

\* No two tasks of the running call have opened the same path for writing,
\* and no file has been written more than once since the call started.
DisjointWrites ==
    /\ \A k \in 1..Len(tasks) : \A l \in 1..Len(tasks) :
          (k # l /\ tasks[k].writes > 0 /\ tasks[l].writes > 0)
          => SavePath(proc, ts_dir, BuildingId(data_rows[k]))
               # SavePath(proc, ts_dir, BuildingId(data_rows[l]))
    /\ \A p \in DOMAIN fs :
          fs[p].writes <= (IF Exists(pre_fs, p) THEN pre_fs[p].writes ELSE 0) + 1

\* C8 as claimed: for every input frame the tasks write disjoint files.
C8_DisjointWrites == pc = "pool" => DisjointWrites

\* C8 as amended: the tasks write disjoint files, and no file is written
\* more than once, when the rows of the frame have pairwise distinct
\* building ids.
C8_DisjointWritesDistinctIds == (pc = "pool" /\ DistinctIds(data_rows)) => DisjointWrites

\* Two tasks over different building ids are both writing their files.
C8_Witness ==
    /\ pc = "pool"
    /\ Len(tasks) = 2
    /\ DistinctIds(data_rows)
    /\ tasks[1].pc = "write"
    /\ tasks[2].pc = "write"

\* C10: a call on an empty frame submits no task, issues no GET, leaves the
\* filesystem as it was and returns two empty lists.
C10_EmptyFrame ==
    /\ \A i \in Calls :
          (IsTimeSeries(i) /\ hist[i].rows = <<>>)
          => /\ Returned(i)
             /\ hist[i].paths = <<>>
             /\ hist[i].ids = <<>>
             /\ hist[i].gets = <<>>
             /\ hist[i].post = hist[i].pre
    /\ (pc = "pool" /\ data_rows = <<>>)
          => /\ tasks = <<>>
             /\ Running(tasks) = {}
             /\ fs = pre_fs

\* A call on an empty frame has returned.
C10_Witness == \E i \in Calls : IsTimeSeries(i) /\ hist[i].rows = <<>>

(***************************************************************************)
(* Further properties of process_metadata.                                 *)
(***************************************************************************)
\* The state code of self is one no row of table carries.
UnknownState(self, table) ==
    /\ self.state # "All"
    /\ \A k \in 1..Len(table) : table[k].in_state.text # self.state

\* C11: a call that filters the raw metadata with a state code no raw row
\* carries completes without error, returns a frame of no rows and leaves a
\* projection file of no rows under its own name.
C11_UnknownState ==
    \A i \in Calls :
        (IsMetadata(i) /\ hist[i].path = "filter"
            /\ Exists(hist[i].post, RawPath(hist[i].save_dir))
            /\ UnknownState(hist[i].self, hist[i].post[RawPath(hist[i].save_dir)].data))
        => /\ Returned(i)
           /\ hist[i].meta_df = <<>>
           /\ Exists(hist[i].post, OutputCsv(hist[i].self, hist[i].save_dir))
           /\ hist[i].post[OutputCsv(hist[i].self, hist[i].save_dir)].data = <<>>
           /\ ReadCsv(hist[i].post[OutputCsv(hist[i].self, hist[i].save_dir)].data) = <<>>

\* A filter call with a state code of no raw row has ended, the raw table
\* holding rows.
C11_Witness ==
    \E i \in Calls :
        /\ IsMetadata(i) /\ hist[i].path = "filter"
        /\ Exists(hist[i].post, RawPath(hist[i].save_dir))
        /\ Len(hist[i].post[RawPath(hist[i].save_dir)].data) > 0
        /\ UnknownState(hist[i].self, hist[i].post[RawPath(hist[i].save_dir)].data)

\* Calls i and j differ at most in the county, the state being "All".
SameButCounty(i, j) ==
    /\ IsMetadata(i) /\ IsMetadata(j)
    /\ hist[i].self.state = "All" /\ hist[j].self.state = "All"
    /\ hist[i].self.building_type = hist[j].self.building_type
    /\ hist[i].self.upgrade = hist[j].self.upgrade

\* C12: with state "All" a call that filters the raw metadata completes
\* without error whatever the county is, and two such calls that differ
\* only in the county return the same frame from the same raw table.
C12_CountyIgnored ==
    /\ \A i \in Calls :
          (IsMetadata(i) /\ hist[i].self.state = "All" /\ hist[i].path = "filter"
              /\ Exists(hist[i].post, RawPath(hist[i].save_dir)))
          => Returned(i)
    /\ \A i \in Calls : \A j \in Calls :
          (SameButCounty(i, j) /\ Returned(i) /\ Returned(j)
              /\ hist[i].path = "filter" /\ hist[j].path = "filter"
              /\ hist[i].post[RawPath(hist[i].save_dir)].data
                    = hist[j].post[RawPath(hist[j].save_dir)].data)
          => hist[i].meta_df = hist[j].meta_df

\* Two filter calls with state "All", one with a county and one without.
C12_Witness ==
    \E i \in Calls : \E j \in Calls :
        /\ SameButCounty(i, j) /\ Returned(i) /\ Returned(j)
        /\ hist[i].path = "filter" /\ hist[j].path = "filter"
        /\ hist[i].self.county_name # "All" /\ hist[j].self.county_name = "All"
        /\ Len(hist[i].meta_df) > 0

(***************************************************************************)
(* Further properties of process_building_time_series.                     *)
(***************************************************************************)
\* The first process_building_time_series call of a run.
NextPool ==
    \/ hist = <<>> /\ \E df \in Frames, d \in TimeSeriesDirs, n \in 1..MaxCpu :
                        StartTimeSeries(df, d, n)
    \/ hist = <<>> /\ \E i \in 1..MaxRows : TaskStart(i)
    \/ hist = <<>> /\ \E i \in 1..MaxRows : TaskCheck(i)
    \/ hist = <<>> /\ \E i \in 1..MaxRows, status \in Statuses : TaskGet(i, status)
    \/ hist = <<>> /\ \E i \in 1..MaxRows : TaskOpen(i)
    \/ hist = <<>> /\ \E i \in 1..MaxRows : TaskWrite(i)
    \/ hist = <<>> /\ ReturnTimeSeries

\* One time-series call in fresh directories; the worker threads keep
\* taking steps, each GET is answered (requests.get has a timeout), and a
\* with-block whose tasks have all finished is left.
SpecPoolFair ==
    Init /\ [][NextPool]_vars /\ WF_vars(PoolStep) /\ WF_vars(ReturnTimeSeries)

\* The step in which process_building_time_series returns to its caller.
ReturnsToCaller == pc = "pool" /\ pc' = "idle"

\* No task is queued or running.
AllTasksDone(ts) == \A k \in 1..Len(ts) : ts[k].pc = "done"

\* C13: the call returns only in a state where every submitted task has
\* finished, so every position of the returned lists holds a finished
\* task's result and no task is left when the driver runs again; and,
\* every GET being answered, a call that has started returns.
C13_BlocksUntilDone ==
    /\ [][ReturnsToCaller => (AllTasksDone(tasks) /\ Running(tasks) = {} /\ tasks' = <<>>)]_vars
    /\ [](pc = "idle" => tasks = <<>>)
    /\ [](\A i \in Calls : IsTimeSeries(i) =>
              /\ Len(hist[i].paths) = Len(hist[i].rows)
              /\ \A k \in 1..Len(hist[i].paths) : hist[i].paths[k] # "")
    /\ (pc = "pool") ~> (pc = "idle")

\* A call over two rows has returned after both tasks made their GET, one
\* answered with a failure.
C13_Witness ==
    \E i \in Calls :
        /\ IsTimeSeries(i)
        /\ Len(hist[i].rows) = 2
        /\ hist[i].gets = <<1, 1>>
        /\ hist[i].statuses = <<HTTP_OK, HTTP_NOT_FOUND>>
        /\ pc = "idle"

(***************************************************************************)
(* The projection file as a cache of its own.                              *)
(***************************************************************************)
\* The user deletes a file between runs (the notice process_metadata prints
\* on a projection hit tells them to).
Remove(f, path) == [q \in DOMAIN f \ {path} |-> f[q]]

\* What a directory holds after an earlier process_metadata call of self:
\* the raw metadata and the projection, or, the large raw file having been
\* deleted since, the projection alone.
ProjectionKept(self) ==
    UNION { { MetadataCall(self, EmptyFs, d, HTTP_OK).fs,
              Remove(MetadataCall(self, EmptyFs, d, HTTP_OK).fs, RawPath(d)) } :
            d \in MetadataDirs }

InitProjection ==
    /\ proc \in Processors
    /\ fs \in ProjectionKept(proc)
    /\ hist = <<>>
    /\ pc = "idle"
    /\ data_rows = <<>>
    /\ ts_dir = ""
    /\ num_workers = 0
    /\ tasks = <<>>
    /\ pre_fs = EmptyFs

\* Metadata calls in directories that hold a projection file.
SpecProjection == InitProjection /\ [][NextMetadata]_vars

\* Every file of post other than path is in pre, unchanged.
SameExceptAt(pre, post, path) ==
    \A p \in DOMAIN post \ {path} : Exists(pre, p) /\ post[p] = pre[p]

\* C14: a call that finds the projection file of its parameters returns
\* what that file reads as and leaves the file as it was, data and
\* modification stamp; it does so too when the raw metadata is absent at
\* its start, whether the one GET it then issues brings the raw file or
\* fails, so the raw metadata is not read.
C14_ProjectionWins ==
    \A i \in Calls :
        (IsMetadata(i) /\ Exists(hist[i].pre, OutputCsv(hist[i].self, hist[i].save_dir)))
        => LET csv == OutputCsv(hist[i].self, hist[i].save_dir)
               raw == RawPath(hist[i].save_dir)
           IN  /\ Returned(i)
               /\ hist[i].path = "cached"
               /\ hist[i].meta_df = ReadCsv(hist[i].pre[csv].data)
               /\ Exists(hist[i].post, csv)
               /\ hist[i].post[csv] = hist[i].pre[csv]
               /\ SameExceptAt(hist[i].pre, hist[i].post, raw)
               /\ Preserved(hist[i].pre, hist[i].post)
               /\ ~Exists(hist[i].pre, raw)
                    => /\ hist[i].gets = <<1>>
                       /\ Exists(hist[i].post, raw) <=> hist[i].statuses = <<HTTP_OK>>

\* Two calls found the projection without the raw metadata: the download of
\* the first failed, the second's brought the raw file.
C14_Witness ==
    \E i \in Calls : \E j \in Calls :
        /\ IsMetadata(i) /\ IsMetadata(j)
        /\ Exists(hist[i].pre, OutputCsv(hist[i].self, hist[i].save_dir))
        /\ ~Exists(hist[i].pre, RawPath(hist[i].save_dir))
        /\ hist[i].statuses = <<HTTP_NOT_FOUND>>
        /\ Returned(i)
        /\ Exists(hist[j].pre, OutputCsv(hist[j].self, hist[j].save_dir))
        /\ ~Exists(hist[j].pre, RawPath(hist[j].save_dir))
        /\ hist[j].statuses = <<HTTP_OK>>
        /\ Exists(hist[j].post, RawPath(hist[j].save_dir))
        /\ Len(hist[j].meta_df) > 0

(***************************************************************************)
(* Requests, workers and failed downloads.                                 *)
(***************************************************************************)
\* The target file of task k of the running call.
TargetOf(k) == ClaimedPath(ts_dir, proc.upgrade, data_rows[k])

\* Task k takes a step of its own.
TaskSteps(k) ==
    /\ pc = "pool" /\ pc' = "pool"
    /\ k \in 1..Len(tasks)
    /\ tasks'[k] # tasks[k]

\* A task that finds its target at its check finishes without a GET, and a
\* task that issues its GET leaves the request behind for good.
OneRequestSteps ==
    \A k \in 1..MaxRows :
        /\ (TaskSteps(k) /\ tasks[k].pc = "check" /\ Exists(fs, TargetOf(k)))
              => (tasks'[k].pc = "done" /\ tasks'[k].gets = 0)
        /\ (TaskSteps(k) /\ tasks[k].pc = "get")
              => (tasks'[k].pc \in {"open", "done"} /\ tasks'[k].gets = 1)
        /\ (TaskSteps(k) /\ tasks[k].pc # "get")
              => tasks'[k].gets = tasks[k].gets

\* The GETs of the completed calls: at most one per metadata call and none
\* with the raw file in place, at most one per row of a time-series call.
OneRequestCalls ==
    \A i \in Calls :
        /\ IsMetadata(i)
              => /\ hist[i].gets \in {<<0>>, <<1>>}
                 /\ Exists(hist[i].pre, RawPath(hist[i].save_dir)) => hist[i].gets = <<0>>
        /\ IsTimeSeries(i)
              => /\ Len(hist[i].gets) = Len(hist[i].rows)
                 /\ \A k \in 1..Len(hist[i].gets) : hist[i].gets[k] \in {0, 1}

\* C15: no call asks twice: a process_metadata call issues at most one GET
\* and none when the raw file exists; each task of a time-series call
\* issues at most one GET, none when its check finds the target, and a
\* task whose GET failed has finished, whatever the statuses are.
C15_NoRetry ==
    /\ []OneRequestCalls
    /\ [](pc = "pool" =>
             \A k \in 1..Len(tasks) :
                /\ tasks[k].gets \in {0, 1}
                /\ (tasks[k].gets = 1 /\ tasks[k].status # HTTP_OK) => tasks[k].pc = "done")
    /\ [][OneRequestSteps]_vars

\* A time-series call over two rows has ended: the first row's one GET
\* failed, the second row's file was in place and was not asked for.
C15_Witness ==
    \E i \in Calls :
        /\ IsTimeSeries(i)
        /\ hist[i].gets = <<1, 0>>
        /\ hist[i].statuses[1] = HTTP_NOT_FOUND
        /\ Exists(hist[i].pre, hist[i].paths[2])
        /\ ~Exists(hist[i].post, hist[i].paths[1])

\* max(1, cpu_count - 1), as the claim words it.
ClaimedWorkers(cpu_count) == IF cpu_count >= 2 THEN cpu_count - 1 ELSE 1

\* The tasks of the running call that are executing: taken by a worker and
\* not yet finished.
Executing == {k \in 1..Len(tasks) : tasks[k].pc \notin {"queued", "done"}}

\* The step that starts a call is a start with some cpu_count that sizes
\* the pool to max(1, cpu_count - 1).
SizedByCpuCount ==
    (pc = "idle" /\ pc' = "pool")
    => \E df \in Frames, d \in TimeSeriesDirs, c \in 1..MaxCpu :
          /\ StartTimeSeries(df, d, c)
          /\ num_workers' = ClaimedWorkers(c)

\* C16: for every cpu_count the pool is sized to max(1, cpu_count - 1), and
\* at no moment of a call are more tasks executing than that, whatever the
\* number of rows is.
C16_BoundedPool ==
    /\ [](\A c \in 1..MaxCpu : NumWorkers(c) = ClaimedWorkers(c))
    /\ [][SizedByCpuCount]_vars
    /\ [](pc = "pool" =>
             /\ \E c \in 1..MaxCpu : num_workers = ClaimedWorkers(c)
             /\ num_workers >= 1
             /\ Cardinality(Executing) <= num_workers)

\* A pool of one worker is at its bound: the first task is waiting for its
\* GET while the second is still queued.
C16_Witness ==
    /\ pc = "pool"
    /\ num_workers = 1
    /\ Len(tasks) = 2
    /\ tasks[1].pc = "get"
    /\ tasks[2].pc = "queued"

(***************************************************************************)
(* The constructor and its base directory.                                 *)
(***************************************************************************)
\* Directories are entries of the filesystem too; the program never writes
\* data to one.
Directory == [data |-> <<>>, writes |-> 0]

\* The base directories a caller names: a name under a parent directory.
ParentDirs == {"datasets"}

DirNames == {"comstock", "cache"}

BaseDirs == {Join(p, n) : p \in ParentDirs, n \in DirNames}

\* Path.parent
Parent(path) == CHOOSE p \in ParentDirs : \E n \in DirNames : Join(p, n) = path

\* Path.mkdir() with its defaults (parents=False, exist_ok=False).
Mkdir(f, path) ==
    IF Exists(f, path) THEN [outcome |-> "FileExistsError", fs |-> f]
    ELSE IF ~Exists(f, Parent(path)) THEN [outcome |-> "FileNotFoundError", fs |-> f]
    ELSE [outcome |-> "returned",
          fs |-> [q \in DOMAIN f \cup {path} |-> IF q = path THEN Directory ELSE f[q]]]

\* ComStockProcessor.__init__ on filesystem f: the fields are assigned, the
\* base directory is made when it does not exist, the URLs are composed.
ConstructorCall(f, state, county_name, building_type, upgrade, base_dir) ==
    LET made == IF ~Exists(f, base_dir) THEN Mkdir(f, base_dir)
                ELSE [outcome |-> "returned", fs |-> f]
    IN  [outcome |-> made.outcome, fs |-> made.fs,
         self |-> NewProcessor(state, county_name, building_type, upgrade, base_dir)]

\* The driver holds no processor yet.
NoProcessor ==
    [state |-> "", county_name |-> "", building_type |-> "", upgrade |-> "", base_dir |-> "",
     base_url |-> "", metadata_url |-> "", time_series_url |-> ""]

\* The driver constructs a processor in base_dir; an exception leaves it
\* with the processor it had.
ConstructIn(q, base_dir) ==
    /\ pc = "idle"
    /\ Len(hist) < MaxCalls
    /\ LET r == ConstructorCall(fs, q[1], q[2], q[3], q[4], base_dir)
       IN  /\ proc' = IF r.outcome = "returned" THEN r.self ELSE proc
           /\ fs' = r.fs
           /\ hist' = Append(hist,
                  CallRecord("__init__", r.self, base_dir, <<>>, r.outcome, <<>>, <<>>,
                             <<q[1], q[2], q[3], q[4], base_dir>>, <<>>, <<>>, "", fs, r.fs))
    /\ UNCHANGED <<pc, pool_vars>>

\* The working directory before the first construction: without the parent
\* directory, with it, and with the base directories in it.
DirectoryStates ==
    { EmptyFs,
      [p \in ParentDirs |-> Directory],
      [p \in ParentDirs \cup BaseDirs |-> Directory] }

InitConstruct ==
    /\ proc = NoProcessor
    /\ fs \in DirectoryStates
    /\ hist = <<>>
    /\ pc = "idle"
    /\ data_rows = <<>>
    /\ ts_dir = ""
    /\ num_workers = 0
    /\ tasks = <<>>
    /\ pre_fs = EmptyFs

NextConstruct == \E q \in Queries, b \in BaseDirs : ConstructIn(q, b)

\* Constructions of processors, whatever the working directory holds.
SpecConstruct == InitConstruct /\ [][NextConstruct]_vars

IsConstruct(i) == hist[i].op = "__init__"

\* C17: every construction returns an object that holds the five arguments
\* unchanged, with metadata_url = base_url + "metadata" and time_series_url
\* = base_url + "timeseries_individual_buildings", and leaves the base
\* directory existing; no construction fails.
C17_Constructor ==
    \A i \in Calls :
        IsConstruct(i)
        => /\ Returned(i)
           /\ hist[i].self.state = hist[i].ids[1]
           /\ hist[i].self.county_name = hist[i].ids[2]
           /\ hist[i].self.building_type = hist[i].ids[3]
           /\ hist[i].self.upgrade = hist[i].ids[4]
           /\ hist[i].self.base_dir = hist[i].ids[5]
           /\ hist[i].self.metadata_url = hist[i].self.base_url \o "metadata"
           /\ hist[i].self.time_series_url
                 = hist[i].self.base_url \o "timeseries_individual_buildings"
           /\ Exists(hist[i].post, hist[i].ids[5])
           /\ Preserved(hist[i].pre, hist[i].post)

\* A task whose GET is answered with a failure finishes in that step with
\* its path and id, having opened no file, and the step leaves the whole
\* filesystem as it was.
FailedGetSteps ==
    \A k \in 1..MaxRows :
        (TaskSteps(k) /\ tasks[k].pc = "get" /\ tasks'[k].status # HTTP_OK)
        => /\ fs' = fs
           /\ tasks'[k].pc = "done"
           /\ tasks'[k].writes = 0
           /\ tasks'[k].path = TargetOf(k)
           /\ Exists(fs', tasks'[k].path) <=> Exists(fs, TargetOf(k))

\* Row l of call record r has the path of row k and was downloaded.
WrittenFor(r, k, l) ==
    /\ l # k
    /\ r.paths[l] = r.paths[k]
    /\ r.gets[l] = 1
    /\ r.statuses[l] = HTTP_OK

\* C18: download_file on a status other than 200 leaves the filesystem as
\* it was: a process_metadata call whose GET failed changes no file, the
\* step of a task whose GET failed changes no file, and when the call has
\* ended the path returned for such a row exists only if it existed before
\* the call or another row of the same path was downloaded; no target is
\* left empty.
C18_NoFileOnFailure ==
    /\ [](\A d \in MetadataDirs :
             DownloadFile(fs, proc.metadata_url \o "/baseline.parquet", RawPath(d),
                          HTTP_NOT_FOUND) = fs)
    /\ [][FailedGetSteps]_vars
    /\ [](\A i \in Calls :
             /\ (IsMetadata(i) /\ hist[i].gets = <<1>> /\ hist[i].statuses # <<HTTP_OK>>)
                   => hist[i].post = hist[i].pre
             /\ IsTimeSeries(i)
                   => \A k \in 1..Len(hist[i].rows) :
                         /\ FailedAt(hist[i], k)
                               => (Exists(hist[i].post, hist[i].paths[k])
                                     => \/ Exists(hist[i].pre, hist[i].paths[k])
                                        \/ \E l \in 1..Len(hist[i].rows) :
                                               WrittenFor(hist[i], k, l))
                         /\ Exists(hist[i].post, hist[i].paths[k])
                               => hist[i].post[hist[i].paths[k]].data # <<>>)

\* A call over two different rows has ended with both downloads failed and
\* neither returned path existing.
C18_Witness ==
    \E i \in Calls :
        /\ IsTimeSeries(i)
        /\ Len(hist[i].rows) = 2
        /\ hist[i].paths[1] # hist[i].paths[2]
        /\ FailedAt(hist[i], 1) /\ FailedAt(hist[i], 2)
        /\ ~Exists(hist[i].post, hist[i].paths[1])
        /\ ~Exists(hist[i].post, hist[i].paths[2])

\* Row k of call record r was asked for and the answer was 200.
DownloadedAt(r, k) == r.gets[k] = 1 /\ r.statuses[k] = HTTP_OK

\* C19: after a time-series call over rows of pairwise distinct building
\* ids, a row's target file exists exactly when it existed before the call
\* or the row's GET was answered with 200; and the next call over the same
\* rows and save_dir issues a GET for exactly the rows whose download
\* failed in the call before.
C19_FilesTrackDownloads ==
    /\ \A i \in Calls :
          (IsTimeSeries(i) /\ DistinctIds(hist[i].rows))
          => \A k \in 1..Len(hist[i].rows) :
                LET path == ClaimedPath(hist[i].save_dir, hist[i].self.upgrade, hist[i].rows[k])
                IN  Exists(hist[i].post, path)
                      <=> (Exists(hist[i].pre, path) \/ DownloadedAt(hist[i], k))
    /\ \A i \in Calls : \A j \in Calls :
          (TwoRuns(i, j) /\ DistinctIds(hist[i].rows))
          => \A k \in 1..Len(hist[i].rows) :
                hist[j].gets[k] = 1 <=> FailedAt(hist[i], k)

\* Two runs over two different rows: the first run downloaded the first
\* row and failed on the second, and the second run asked for the second
\* row alone.
C19_Witness ==
    \E i \in Calls : \E j \in Calls :
        /\ TwoRuns(i, j)
        /\ Len(hist[i].rows) = 2
        /\ DistinctIds(hist[i].rows)
        /\ DownloadedAt(hist[i], 1)
        /\ FailedAt(hist[i], 2)
        /\ hist[j].gets = <<0, 1>>

====
